---- MODULE Spec2Model ----
(***************************************************************************)
(* The extension / plugin lifecycle engine of phosphor-plugins.            *)
(*                                                                         *)
(* extension.ts: ExtensionPoint, Extension, the two registries             *)
(* (allExtensionPoints, allExtensions), loadExtensionPoint, loadExtension. *)
(* plugin.ts and its later revision (unnamed/part_000): Plugin and the     *)
(* plugin manager (fetchPlugins, loadPlugin, unloadPlugin, listPlugins).   *)
(*                                                                         *)
(* Everything runs on one event loop.  A promise that waits for the        *)
(* outside world (System.import, a loader's or initializer's promise) is a *)
(* pending position of a call; the action that completes it runs the       *)
(* callback registered on it up to the next such wait.                     *)
(***************************************************************************)
EXTENDS Integers, Sequences, FiniteSets, TLC

\* ------------------------------------------------------------------------
\* Bounds of the model
\* ------------------------------------------------------------------------
\* loadExtension calls made directly in one run
MaxExts == 2
\* fetchPlugins and Plugin.load calls in one run
MaxCalls == 3
\* loadExtensionPoint calls in one run where an id may be registered again
MaxPoints == 2
\* initialize / load calls made on Extension objects themselves in one run
MaxMethodCalls == 3
\* resolutions (imports, loader / initializer promises, receiver calls)
\* that fail in one run
MaxFails == 1
\* fetchPlugins calls in one run of the discovery with validation
MaxFetches == 2

VARIABLES
  points,              \* the ExtensionPoint objects, in construction order
  exts,                \* the Extension objects, in construction order
  allExtensionPoints,  \* extension.ts:375, point id -> ExtensionPoint (0: none)
  allExtensions,       \* extension.ts:378, point id -> Extension[] (<<>>: none)
  conns,               \* the ExtensionPoint.connect calls, in call order
  regs,                \* the promises returned by loadExtensionPoint / loadExtension
  recvLog,             \* the receiver invocations, in order (connect call numbers)
  disposed,            \* the cleanup handles whose dispose() has run
  fails,               \* number of failed resolutions so far
  calls,               \* the initialize / load calls made on an Extension itself
  version,             \* the revision of the manager: "plugin.ts" or "part_000"
  availablePlugins,    \* plugin.ts:287 / part_000:371, name -> Plugin (0: none)
  loadedPlugins,       \* plugin.ts:290 / part_000:374, name -> Plugin (0: none)
  plugins,             \* the Plugin objects, in construction order
  configs,             \* the extension point / extension objects of the manifests
  loads,               \* the Plugin.load calls, in call order
  fetches              \* the fetchPlugins calls, in call order

engineVars ==
  <<points, exts, allExtensionPoints, allExtensions, conns, regs, recvLog,
    disposed, fails, calls>>

managerVars ==
  <<version, availablePlugins, loadedPlugins, plugins, configs, loads, fetches>>

vars == <<engineVars, managerVars>>

\* ------------------------------------------------------------------------
\* Values
\* ------------------------------------------------------------------------
PointIds == {"P"}

NoPoint == 0

\* no path: the field is not set
Absent == <<>>

\* A module path is the sequence of its '/'-separated parts.
Path(name, rest) == <<name>> \o rest

\* IExtensionPointJSON (extension.ts:68-101); initializer: whether one is named
PointConfigs ==
  [id : PointIds, module : {<<"m">>}, initializer : BOOLEAN]

\* IExtensionJSON (extension.ts:15-65); loader, initializer: whether one is
\* named; data: the path of the data file.  The three shapes used: an object
\* contribution with an initializer, a data contribution, and one with both.
ExtShapes ==
  { [loader |-> TRUE,  data |-> Absent,  initializer |-> TRUE],
    [loader |-> FALSE, data |-> <<"d">>, initializer |-> FALSE],
    [loader |-> TRUE,  data |-> <<"d">>, initializer |-> FALSE] }

ExtConfigs ==
  { [ point |-> id, module |-> <<"m">>, loader |-> s.loader, data |-> s.data,
      initializer |-> s.initializer ] : id \in PointIds, s \in ExtShapes }

\* A cleanup handle or an entity held in a DisposableSet.
Item(kind, of) == [kind |-> kind, of |-> of]

\* ------------------------------------------------------------------------
\* DisposableSet (phosphor-disposable), as used by the three classes
\* ------------------------------------------------------------------------
NewDisposableSet == [set |-> {}, isDisposed |-> FALSE]

\* add() throws on a disposed set
DisposableSet_canAdd(ds) == ~ds.isDisposed

DisposableSet_add(ds, item) == [ds EXCEPT !.set = @ \cup {item}]

\* the items a dispose() of the set disposes: all of them, once
DisposableSet_items(ds) == IF ds.isDisposed THEN {} ELSE ds.set

DisposableSet_dispose(ds) == [set |-> {}, isDisposed |-> TRUE]

\* obj.hasOwnProperty('dispose'): true of the object literals user code
\* returns with a dispose member; false of an ExtensionPoint, Extension or
\* Plugin instance, whose dispose is a method of the class prototype.
HasOwnDispose(kind) == kind \in {"recv", "pinit", "einit", "plinit"}

\* ------------------------------------------------------------------------
\* ExtensionPoint
\* ------------------------------------------------------------------------
\* constructor (extension.ts:146-152) and the field defaults (224-230);
\* initCalls / initDone record the invocations of the point's initializer
NewExtensionPoint(options) ==
  [ id |-> options.id, module |-> options.module,
    initializer |-> options.initializer, initialized |-> FALSE,
    receiverFunc |-> FALSE, disposables |-> NewDisposableSet,
    initCalls |-> 0, initDone |-> FALSE ]

\* ------------------------------------------------------------------------
\* Extension
\* ------------------------------------------------------------------------
\* constructor (extension.ts:242-254); extension is the contribution
\* { config, data, object } with the fields that are set, live = FALSE once
\* _extension is null; initCalls counts the invocations of the extension's
\* initializer
NewExtension(options) ==
  [ point |-> options.point, loader |-> options.loader,
    module |-> options.module, data |-> options.data,
    initializer |-> options.initializer,
    extension |-> [live |-> TRUE, data |-> FALSE, object |-> FALSE],
    disposables |-> NewDisposableSet, initCalls |-> 0 ]

\* ------------------------------------------------------------------------
\* connect calls
\* ------------------------------------------------------------------------
\* pc of a connect call:
\*   "load"    waiting for _load's System.import            (extension.ts:186)
\*   "init1"   waiting for _initialize's System.import      (extension.ts:201)
\*   "init2"   waiting for the initializer's promise        (extension.ts:202)
\*   "ready"   _load's promise resolved, callback due       (extension.ts:176)
\*   "extLoad" waiting for Extension.load                   (extension.ts:215)
\*   "einit1"  waiting for Extension.initialize's import    (extension.ts:277)
\*   "einit2"  waiting for the extension initializer        (extension.ts:279)
\*   "done" / "failed"  the promise connect returned resolved / rejected
\* dataSt, objSt: the two resolutions of Extension.load
\*   "idle" not started, "none" nothing configured,
\*   "pending" / "import", "loader" waiting, "done", "failed"

\* _connectExtension with an Extension.load that starts the data resolution
\* only and leaves the object resolution for later
ExtensionPoint_connectExtension_dataFirst(conn, pts, xs) ==
  [ conn EXCEPT
      !.pc = "extLoad",
      !.receiver = pts[conn.point].receiverFunc,
      !.dataSt = IF xs[conn.ext].data # Absent THEN "pending" ELSE "none" ]

\* _connectExtension that starts Extension.initialize at once, before the
\* extension is loaded and handed to the receiver
ExtensionPoint_connectExtension_initializesFirst(conn, pts, xs) ==
  [ conn EXCEPT
      !.pc = IF xs[conn.ext].initializer THEN "einit1" ELSE "done",
      !.receiver = pts[conn.point].receiverFunc,
      !.dataSt = "none",
      !.objSt = "none" ]

\* _connectExtension with an Extension.load that imports the module whether
\* or not a loader is named
ExtensionPoint_connectExtension_alwaysImports(conn, pts, xs) ==
  [ conn EXCEPT
      !.pc = "extLoad",
      !.receiver = pts[conn.point].receiverFunc,
      !.dataSt = IF xs[conn.ext].data # Absent THEN "pending" ELSE "none",
      !.objSt = "import" ]

\* ExtensionPoint._connectExtension, up to extension.load() (extension.ts:213-215,
\* 293-294, 301-305, 314-318): the receiver is read now, both resolutions start
ExtensionPoint_connectExtension(conn, pts, xs) ==
  [ conn EXCEPT
      !.pc = "extLoad",
      !.receiver = pts[conn.point].receiverFunc,
      !.dataSt = IF xs[conn.ext].data # Absent THEN "pending" ELSE "none",
      !.objSt = IF xs[conn.ext].loader THEN "import" ELSE "none" ]

\* ExtensionPoint.connect (extension.ts:173-180)
ExtensionPoint_connect(p, e, pts, xs) ==
  LET conn == [ point |-> p, ext |-> e, pc |-> "load", receiver |-> FALSE,
                dataSt |-> "idle", objSt |-> "idle" ]
  IN IF ~pts[p].initialized THEN conn
     ELSE ExtensionPoint_connectExtension(conn, pts, xs)

\* the promise of a registration resolved by the first connect call that
\* resolves
RegStatus_first(r, cs) ==
  IF r.conns = {} \/ \E c \in r.conns : cs[c].pc = "done" THEN "fulfilled"
  ELSE IF \E c \in r.conns : cs[c].pc = "failed" THEN "rejected"
  ELSE "pending"

\* the promise of a registration: Promise.all over its connect calls
\* (extension.ts:353, 365); with no connect call it is resolved at once
\* (extension.ts:346, 370)
RegStatus(r, cs) ==
  IF \E c \in r.conns : cs[c].pc = "failed" THEN "rejected"
  ELSE IF \A c \in r.conns : cs[c].pc = "done" THEN "fulfilled"
  ELSE "pending"

\* ------------------------------------------------------------------------
\* Initial state of the engine
\* ------------------------------------------------------------------------
EngineInit ==
  /\ points = <<>>
  /\ exts = <<>>
  /\ allExtensionPoints = [i \in PointIds |-> NoPoint]
  /\ allExtensions = [i \in PointIds |-> <<>>]
  /\ conns = <<>>
  /\ regs = <<>>
  /\ recvLog = <<>>
  /\ disposed = {}
  /\ fails = 0
  /\ calls = <<>>

\* ------------------------------------------------------------------------
\* The registry operations (extension.ts:340-371)
\* ------------------------------------------------------------------------
\* The part of the state a registration reads and writes.
Registry ==
  [ points |-> points, exts |-> exts, allExtensionPoints |-> allExtensionPoints,
    allExtensions |-> allExtensions, conns |-> conns, regs |-> regs ]

\* loadExtensionPoint that leaves the pending queue of its id in place
loadExtensionPoint_keepsQueue(R, config, owner) ==
  LET p == Len(R.points) + 1
      pts == Append(R.points, NewExtensionPoint(config))
      extensions == R.allExtensions[config.id]
      n == Len(R.conns)
      promises == [ i \in 1..Len(extensions) |->
                      ExtensionPoint_connect(p, extensions[i], pts, R.exts) ]
  IN [ R EXCEPT
         !.points = pts,
         !.allExtensionPoints[config.id] = p,
         !.conns = @ \o promises,
         !.regs = Append(@, [ kind |-> "point", obj |-> p,
                              conns |-> (n + 1)..(n + Len(extensions)),
                              owner |-> owner ]) ]

\* loadExtensionPoint(config) (extension.ts:340-354); owner: the Plugin.load
\* call that made the call (0: none)
loadExtensionPoint(R, config, owner) ==
  LET p == Len(R.points) + 1
      pts == Append(R.points, NewExtensionPoint(config))
      extensions == R.allExtensions[config.id]
      n == Len(R.conns)
      promises == [ i \in 1..Len(extensions) |->
                      ExtensionPoint_connect(p, extensions[i], pts, R.exts) ]
  IN [ R EXCEPT
         !.points = pts,
         !.allExtensionPoints[config.id] = p,
         !.allExtensions[config.id] = <<>>,
         !.conns = @ \o promises,
         !.regs = Append(@, [ kind |-> "point", obj |-> p,
                              conns |-> (n + 1)..(n + Len(extensions)),
                              owner |-> owner ]) ]

\* loadExtension with a queue that keeps only the latest extension of a point
loadExtension_overwritesQueue(R, config, owner) ==
  LET e == Len(R.exts) + 1
      xs == Append(R.exts, NewExtension(config))
      p == R.allExtensionPoints[config.point]
      n == Len(R.conns)
  IN IF p # NoPoint
     THEN [ R EXCEPT
              !.exts = xs,
              !.conns = Append(@, ExtensionPoint_connect(p, e, R.points, xs)),
              !.regs = Append(@, [ kind |-> "ext", obj |-> e,
                                   conns |-> {n + 1}, owner |-> owner ]) ]
     ELSE [ R EXCEPT
              !.exts = xs,
              !.allExtensions[config.point] = <<e>>,
              !.regs = Append(@, [ kind |-> "ext", obj |-> e,
                                   conns |-> {}, owner |-> owner ]) ]

\* loadExtension that puts a buffered extension at the front of the queue
loadExtension_prepends(R, config, owner) ==
  LET e == Len(R.exts) + 1
      xs == Append(R.exts, NewExtension(config))
      p == R.allExtensionPoints[config.point]
      n == Len(R.conns)
  IN IF p # NoPoint
     THEN [ R EXCEPT
              !.exts = xs,
              !.conns = Append(@, ExtensionPoint_connect(p, e, R.points, xs)),
              !.regs = Append(@, [ kind |-> "ext", obj |-> e,
                                   conns |-> {n + 1}, owner |-> owner ]) ]
     ELSE [ R EXCEPT
              !.exts = xs,
              !.allExtensions[config.point] = <<e>> \o @,
              !.regs = Append(@, [ kind |-> "ext", obj |-> e,
                                   conns |-> {}, owner |-> owner ]) ]

\* loadExtension(config) (extension.ts:360-371)
loadExtension(R, config, owner) ==
  LET e == Len(R.exts) + 1
      xs == Append(R.exts, NewExtension(config))
      p == R.allExtensionPoints[config.point]
      n == Len(R.conns)
  IN IF p # NoPoint
     THEN [ R EXCEPT
              !.exts = xs,
              !.conns = Append(@, ExtensionPoint_connect(p, e, R.points, xs)),
              !.regs = Append(@, [ kind |-> "ext", obj |-> e,
                                   conns |-> {n + 1}, owner |-> owner ]) ]
     ELSE [ R EXCEPT
              !.exts = xs,
              !.allExtensions[config.point] = Append(@, e),
              !.regs = Append(@, [ kind |-> "ext", obj |-> e,
                                   conns |-> {}, owner |-> owner ]) ]

\* the registry after a registration
SetRegistry(R) ==
  /\ points' = R.points
  /\ exts' = R.exts
  /\ allExtensionPoints' = R.allExtensionPoints
  /\ allExtensions' = R.allExtensions
  /\ conns' = R.conns
  /\ regs' = R.regs

\* ------------------------------------------------------------------------
\* The callbacks of a connect call
\* ------------------------------------------------------------------------
\* Promise.all (extension.ts:353, plugin.ts:106)
PromiseAll(statuses) ==
  IF "rejected" \in statuses THEN "rejected"
  ELSE IF statuses \subseteq {"fulfilled"} THEN "fulfilled"
  ELSE "pending"

\* the registrations of Plugin pl whose promise is fulfilled
Fulfilled(pl, rgs, lds, cs) ==
  { k \in DOMAIN rgs :
      /\ rgs[k].owner # 0
      /\ lds[rgs[k].owner].plugin = pl
      /\ RegStatus(rgs[k], cs) = "fulfilled" }

\* the callbacks Plugin._loadExtensionPoint and Plugin._loadExtension put on
\* the promise of a registration (plugin.ts:118-122, 137-141), run for the
\* registrations `results` that were just fulfilled: a result with an own
\* `dispose` property goes into the plugin's disposables
Plugin_collect(plugin, results) ==
  LET own == { r \in results : HasOwnDispose(r.kind) }
  IN IF own # {} /\ DisposableSet_canAdd(plugin.disposables)
     THEN [ plugin EXCEPT
              !.disposables.set = @ \cup { Item(r.kind, r.obj) : r \in own } ]
     ELSE plugin

\* the promise of one entry without the .catch
Plugin_entryStatus_noCatch(status) == status

\* the promise of one entry of Plugin.load: .then(...).catch(console.error)
\* turns a rejection into a fulfilment (plugin.ts:118-122, 137-141)
Plugin_entryStatus(status) ==
  IF status = "rejected" THEN "fulfilled" ELSE status

\* the callback Plugin.load puts on Promise.all (plugin.ts:106): it returns
\* this._initialize.bind(this), a function, and calls nothing; the body of
\* _initialize (plugin.ts:147-161) is never run
Plugin_loadCallback(plugin) == plugin

\* the promise Plugin.load call l returned
LoadStatus(l, rgs, cs) ==
  PromiseAll({ Plugin_entryStatus(RegStatus(rgs[k], cs)) :
               k \in { j \in DOMAIN rgs : rgs[j].owner = l } })

\* the Plugin.load calls of Plugin pl whose promise is fulfilled
Loaded(pl, rgs, lds, cs) ==
  { l \in DOMAIN lds : lds[l].plugin = pl /\ LoadStatus(l, rgs, cs) = "fulfilled" }

\* the Plugin objects after the promises fulfilled by a step have run their
\* callbacks: those of the entries, then that of Plugin.load
Settle(pls, rgs0, lds0, cs0, rgs1, lds1, cs1) ==
  [ i \in DOMAIN pls |->
      LET collected ==
            Plugin_collect(pls[i],
              { rgs1[k] : k \in Fulfilled(i, rgs1, lds1, cs1)
                                \ Fulfilled(i, rgs0, lds0, cs0) })
      IN IF Loaded(i, rgs1, lds1, cs1) \ Loaded(i, rgs0, lds0, cs0) # {}
         THEN Plugin_loadCallback(collected)
         ELSE collected ]

\* what every callback of a connect call leaves alone
AfterCallback ==
  /\ plugins' = Settle(plugins, regs, loads, conns, regs, loads, conns')
  /\ UNCHANGED <<version, availablePlugins, loadedPlugins, configs, loads,
                 fetches, calls>>

\* _initialize with the flag left unset while an initializer is to be run
ExtensionPoint_initialize_flagUnset(pt) ==
  [ point |-> IF pt.initializer THEN pt ELSE [pt EXCEPT !.initialized = TRUE],
    pc |-> IF pt.initialized \/ ~pt.initializer THEN "ready" ELSE "init1" ]

\* ExtensionPoint._initialize, its synchronous part (extension.ts:195-201):
\* the flag is set before the initializer's module is imported
ExtensionPoint_initialize(pt) ==
  [ point |-> [pt EXCEPT !.initialized = TRUE],
    pc |-> IF pt.initialized \/ ~pt.initializer THEN "ready" ELSE "init1" ]

\* _load's System.import resolves (extension.ts:186-189)
PointModuleLoaded(c) ==
  /\ conns[c].pc = "load"
  /\ LET p == conns[c].point
         init == ExtensionPoint_initialize([points[p] EXCEPT !.receiverFunc = TRUE])
     IN /\ points' = [points EXCEPT ![p] = init.point]
        /\ conns' = [conns EXCEPT ![c].pc = init.pc]
  /\ UNCHANGED <<exts, allExtensionPoints, allExtensions, regs, recvLog,
                 disposed, fails>>
  /\ AfterCallback

\* _initialize's System.import resolves: the initializer is called
\* (extension.ts:201-202)
PointInitModuleLoaded(c) ==
  /\ conns[c].pc = "init1"
  /\ points' = [points EXCEPT ![conns[c].point].initCalls = @ + 1]
  /\ conns' = [conns EXCEPT ![c].pc = "init2"]
  /\ UNCHANGED <<exts, allExtensionPoints, allExtensions, regs, recvLog,
                 disposed, fails>>
  /\ AfterCallback

\* the initializer's promise resolves (extension.ts:202-206)
PointInitResolved(c) ==
  /\ conns[c].pc = "init2"
  /\ LET p == conns[c].point
         result == Item("pinit", c)
         ok == HasOwnDispose(result.kind) => DisposableSet_canAdd(points[p].disposables)
     IN /\ points' =
             [ points EXCEPT
                 ![p].initDone = TRUE,
                 ![p].disposables =
                    IF HasOwnDispose(result.kind) /\ ok
                    THEN DisposableSet_add(@, result) ELSE @ ]
        /\ conns' = [conns EXCEPT ![c].pc = IF ok THEN "ready" ELSE "failed"]
  /\ UNCHANGED <<exts, allExtensionPoints, allExtensions, regs, recvLog,
                 disposed, fails>>
  /\ AfterCallback

\* the callback on _load's promise (extension.ts:176)
ConnectExtension(c) ==
  /\ conns[c].pc = "ready"
  /\ conns' = [conns EXCEPT ![c] = ExtensionPoint_connectExtension(@, points, exts)]
  /\ UNCHANGED <<points, exts, allExtensionPoints, allExtensions, regs, recvLog,
                 disposed, fails>>
  /\ AfterCallback

\* Promise.all of Extension.load rejects with the first failure; a connect
\* call that has not settled yet is rejected with it
FailedLoad(pc) == IF pc = "extLoad" THEN "failed" ELSE pc

\* _loadData's System.import resolves (extension.ts:305-308); the
\* assignment throws when _extension is null
DataLoaded(c) ==
  /\ conns[c].dataSt = "pending"
  /\ LET e == conns[c].ext
     IN IF exts[e].extension.live
        THEN /\ exts' = [exts EXCEPT ![e].extension.data = TRUE]
             /\ conns' = [conns EXCEPT ![c].dataSt = "done"]
        ELSE /\ exts' = exts
             /\ conns' = [conns EXCEPT ![c].dataSt = "failed",
                                       ![c].pc = FailedLoad(@)]
  /\ UNCHANGED <<points, allExtensionPoints, allExtensions, regs, recvLog,
                 disposed, fails>>
  /\ AfterCallback

\* _loadObject's System.import resolves: the loader is called
\* (extension.ts:318-320)
ObjModuleLoaded(c) ==
  /\ conns[c].objSt = "import"
  /\ conns' = [conns EXCEPT ![c].objSt = "loader"]
  /\ UNCHANGED <<points, exts, allExtensionPoints, allExtensions, regs, recvLog,
                 disposed, fails>>
  /\ AfterCallback

\* the loader's promise resolves (extension.ts:320-323)
LoaderResolved(c) ==
  /\ conns[c].objSt = "loader"
  /\ LET e == conns[c].ext
     IN IF exts[e].extension.live
        THEN /\ exts' = [exts EXCEPT ![e].extension.object = TRUE]
             /\ conns' = [conns EXCEPT ![c].objSt = "done"]
        ELSE /\ exts' = exts
             /\ conns' = [conns EXCEPT ![c].objSt = "failed",
                                       ![c].pc = FailedLoad(@)]
  /\ UNCHANGED <<points, allExtensionPoints, allExtensions, regs, recvLog,
                 disposed, fails>>
  /\ AfterCallback

\* Extension.initialize, its synchronous part (extension.ts:274-287)
Extension_initialize(x) ==
  [ ext |-> [x EXCEPT !.extension.live = FALSE],
    pc |-> IF x.initializer THEN "einit1" ELSE "done" ]

\* both resolutions of Extension.load are through: the callback of
\* _connectExtension calls the receiver with the contribution, keeps the
\* handle it returns and starts Extension.initialize (extension.ts:215-221);
\* outcome: the receiver "returns" or "throws"
Deliver(c, outcome) ==
  /\ conns[c].pc = "extLoad"
  /\ conns[c].dataSt \in {"none", "done"}
  /\ conns[c].objSt \in {"none", "done"}
  /\ outcome = "throws" => fails < MaxFails
  /\ LET p == conns[c].point
         e == conns[c].ext
         disposable == Item("recv", c)
         called == conns[c].receiver
         added == /\ called
                  /\ outcome = "returns"
                  /\ HasOwnDispose(disposable.kind)
                  /\ DisposableSet_canAdd(points[p].disposables)
         ok == /\ called
               /\ outcome = "returns"
               /\ HasOwnDispose(disposable.kind) => added
         init == Extension_initialize(exts[e])
     IN /\ called \/ outcome = "returns"
        /\ recvLog' = IF called
                      THEN Append(recvLog, [conn |-> c, result |-> exts[e].extension])
                      ELSE recvLog
        /\ points' = IF added
                     THEN [points EXCEPT ![p].disposables = DisposableSet_add(@, disposable)]
                     ELSE points
        /\ exts' = IF ok THEN [exts EXCEPT ![e] = init.ext] ELSE exts
        /\ conns' = [conns EXCEPT ![c].pc = IF ok THEN init.pc ELSE "failed"]
        /\ fails' = IF called /\ outcome = "throws" THEN fails + 1 ELSE fails
  /\ UNCHANGED <<allExtensionPoints, allExtensions, regs, disposed>>
  /\ AfterCallback

\* Extension.initialize's System.import resolves: the initializer is called
\* (extension.ts:277-279)
ExtInitModuleLoaded(c) ==
  /\ conns[c].pc = "einit1"
  /\ exts' = [exts EXCEPT ![conns[c].ext].initCalls = @ + 1]
  /\ conns' = [conns EXCEPT ![c].pc = "einit2"]
  /\ UNCHANGED <<points, allExtensionPoints, allExtensions, regs, recvLog,
                 disposed, fails>>
  /\ AfterCallback

\* the extension initializer's promise resolves (extension.ts:279-283)
ExtInitResolved(c) ==
  /\ conns[c].pc = "einit2"
  /\ LET e == conns[c].ext
         disposable == Item("einit", c)
         ok == HasOwnDispose(disposable.kind) => DisposableSet_canAdd(exts[e].disposables)
     IN /\ exts' =
             [ exts EXCEPT
                 ![e].disposables =
                    IF HasOwnDispose(disposable.kind) /\ ok
                    THEN DisposableSet_add(@, disposable) ELSE @ ]
        /\ conns' = [conns EXCEPT ![c].pc = IF ok THEN "done" ELSE "failed"]
  /\ UNCHANGED <<points, allExtensionPoints, allExtensions, regs, recvLog,
                 disposed, fails>>
  /\ AfterCallback

\* a System.import, a loader's or an initializer's promise rejects
Reject(c) ==
  /\ fails < MaxFails
  /\ fails' = fails + 1
  /\ \/ /\ conns[c].pc \in {"load", "init1", "init2", "einit1", "einit2"}
        /\ conns' = [conns EXCEPT ![c].pc = "failed"]
     \/ /\ conns[c].dataSt = "pending"
        /\ conns' = [conns EXCEPT ![c].dataSt = "failed", ![c].pc = FailedLoad(@)]
     \/ /\ conns[c].objSt \in {"import", "loader"}
        /\ conns' = [conns EXCEPT ![c].objSt = "failed", ![c].pc = FailedLoad(@)]
  /\ UNCHANGED <<points, exts, allExtensionPoints, allExtensions, regs, recvLog,
                 disposed>>
  /\ AfterCallback

\* ------------------------------------------------------------------------
\* The registry driven directly: calls of the two exported functions
\* ------------------------------------------------------------------------
\* a point id is registered once: a second registration of an id is a
\* caller error
CallLoadExtensionPoint(config) ==
  /\ \A p \in DOMAIN points : points[p].id # config.id
  /\ SetRegistry(loadExtensionPoint(Registry, config, 0))
  /\ UNCHANGED <<recvLog, disposed, fails, calls, managerVars>>

CallLoadExtension(config) ==
  /\ Len(exts) < MaxExts
  /\ SetRegistry(loadExtension(Registry, config, 0))
  /\ UNCHANGED <<recvLog, disposed, fails, calls, managerVars>>

\* the callbacks that complete a resolution successfully
NextResolve ==
  \/ \E c \in DOMAIN conns : PointModuleLoaded(c)
  \/ \E c \in DOMAIN conns : PointInitModuleLoaded(c)
  \/ \E c \in DOMAIN conns : PointInitResolved(c)
  \/ \E c \in DOMAIN conns : ConnectExtension(c)
  \/ \E c \in DOMAIN conns : DataLoaded(c)
  \/ \E c \in DOMAIN conns : ObjModuleLoaded(c)
  \/ \E c \in DOMAIN conns : LoaderResolved(c)
  \/ \E c \in DOMAIN conns : Deliver(c, "returns")
  \/ \E c \in DOMAIN conns : ExtInitModuleLoaded(c)
  \/ \E c \in DOMAIN conns : ExtInitResolved(c)

\* the failures: a receiver throws, a resolution rejects
NextFail ==
  \/ \E c \in DOMAIN conns : Deliver(c, "throws")
  \/ \E c \in DOMAIN conns : Reject(c)

\* ------------------------------------------------------------------------
\* The manifests
\* ------------------------------------------------------------------------
\* a list field of a Plugin: null, or an array
NullList == [isNull |-> TRUE, items |-> <<>>]

List(items) == [isNull |-> FALSE, items |-> items]

\* System.npm: the installed packages, with the number of `node_modules` in
\* the fileUrl of each
SystemNpm ==
  { [name |-> "foo", nodeModules |-> 1],
    [name |-> "bar", nodeModules |-> 1],
    [name |-> "dep", nodeModules |-> 2] }

\* the names a manager call is made with: the two packages that declare a
\* plugin and a name no package has
Names == {"foo", "bar", "zed"}

\* the plugin declaration in the package.json of a package: `foo` declares
\* the extension point P, an extension of it and a plugin initializer,
\* `bar` declares an extension of P
PluginJSON(name) ==
  IF name = "foo"
  THEN [ main |-> <<"main">>, initializer |-> TRUE,
         extensionPoints |-> List(<<"fooPoint">>),
         extensions |-> List(<<"fooExt">>) ]
  ELSE [ main |-> <<"main">>, initializer |-> FALSE,
         extensionPoints |-> NullList,
         extensions |-> List(<<"barExt">>) ]

\* the declared objects as they are read from the package.json files; a
\* package.json is imported once, so every Plugin made from it shares them
ManifestConfigs ==
  [ fooPoint |-> [ id |-> "P", module |-> Absent, initializer |-> TRUE ],
    fooExt   |-> [ point |-> "P", module |-> Absent, loader |-> TRUE,
                   data |-> Absent, initializer |-> TRUE ],
    barExt   |-> [ point |-> "P", module |-> Absent, loader |-> FALSE,
                   data |-> <<"d">>, initializer |-> FALSE ] ]

\* ------------------------------------------------------------------------
\* Plugin
\* ------------------------------------------------------------------------
\* constructor (plugin.ts:62-73, part_000:141-152); initCalls counts the
\* invocations of the plugin's initializer
NewPlugin(name, options) ==
  [ name |-> name, module |-> Path(name, options.main),
    initializer |-> options.initializer,
    extensionPoints |-> options.extensionPoints,
    extensions |-> options.extensions,
    disposables |-> NewDisposableSet, initCalls |-> 0 ]

\* Plugin._loadExtensionPoint (plugin.ts:112-123): S is the registry and the
\* declared objects, l the number of the Plugin.load call
Plugin_loadExtensionPoint(S, plugin, c, l) ==
  LET point == [ S.configs[c] EXCEPT
                   !.module = IF @ # Absent THEN Path(plugin.name, @)
                              ELSE plugin.module ]
  IN [ R |-> loadExtensionPoint(S.R, point, l),
       configs |-> [S.configs EXCEPT ![c] = point] ]

\* Plugin._loadExtension (plugin.ts:128-142)
Plugin_loadExtension(S, plugin, c, l) ==
  LET extension == [ S.configs[c] EXCEPT
                       !.module = IF @ # Absent THEN Path(plugin.name, @)
                                  ELSE plugin.module,
                       !.data = IF @ # Absent THEN Path(plugin.name, @) ELSE @ ]
  IN [ R |-> loadExtension(S.R, extension, l),
       configs |-> [S.configs EXCEPT ![c] = extension] ]

\* Plugin.load, the two loops (plugin.ts:96-105): the extension points in
\* declaration order, then the extensions
RECURSIVE Plugin_loadEntries(_, _, _, _, _)
Plugin_loadEntries(S, plugin, pointList, extList, l) ==
  IF pointList # <<>>
  THEN Plugin_loadEntries(Plugin_loadExtensionPoint(S, plugin, Head(pointList), l),
                          plugin, Tail(pointList), extList, l)
  ELSE IF extList # <<>>
  THEN Plugin_loadEntries(Plugin_loadExtension(S, plugin, Head(extList), l),
                          plugin, pointList, Tail(extList), l)
  ELSE S

\* Plugin.load that registers the declared extensions before the declared
\* extension points
Plugin_load_extensionsFirst(pl) ==
  LET l == Len(loads) + 1
      plugin == plugins[pl]
      S1 == Plugin_loadEntries([R |-> Registry, configs |-> configs], plugin,
                               <<>>, plugin.extensions.items, l)
      S == Plugin_loadEntries(S1, plugin, plugin.extensionPoints.items, <<>>, l)
      lds == Append(loads, [plugin |-> pl])
  IN /\ SetRegistry(S.R)
     /\ configs' = S.configs
     /\ loads' = lds
     /\ plugins' = Settle(plugins, regs, loads, conns, S.R.regs, lds, S.R.conns)

\* Plugin.load (plugin.ts:94-107) on Plugin pl
Plugin_load(pl) ==
  LET l == Len(loads) + 1
      plugin == plugins[pl]
      S == Plugin_loadEntries([R |-> Registry, configs |-> configs], plugin,
                              plugin.extensionPoints.items,
                              plugin.extensions.items, l)
      lds == Append(loads, [plugin |-> pl])
  IN /\ SetRegistry(S.R)
     /\ configs' = S.configs
     /\ loads' = lds
     /\ plugins' = Settle(plugins, regs, loads, conns, S.R.regs, lds, S.R.conns)

\* ExtensionPoint.dispose, the fields of the point (extension.ts:166-167)
ExtensionPoint_dispose(pt) ==
  [pt EXCEPT !.receiverFunc = FALSE, !.disposables = DisposableSet_dispose(@)]

\* Extension.dispose (extension.ts:266-269)
Extension_dispose(x) ==
  [x EXCEPT !.extension.live = FALSE, !.disposables = DisposableSet_dispose(@)]

\* Plugin.dispose (plugin.ts:85-89) on Plugin pl: the items of its set are
\* disposed, an ExtensionPoint also leaves the registry (extension.ts:165)
Plugin_dispose(pl) ==
  LET items == DisposableSet_items(plugins[pl].disposables)
      ps == { i.of : i \in { j \in items : j.kind = "point" } }
      xs == { i.of : i \in { j \in items : j.kind = "ext" } }
      inner == UNION ( { DisposableSet_items(points[p].disposables) : p \in ps }
                       \cup { DisposableSet_items(exts[e].disposables) : e \in xs } )
  IN /\ plugins' = [ plugins EXCEPT
                       ![pl].extensions = NullList,
                       ![pl].extensionPoints = NullList,
                       ![pl].disposables = DisposableSet_dispose(@) ]
     /\ points' = [ p \in DOMAIN points |->
                      IF p \in ps THEN ExtensionPoint_dispose(points[p])
                      ELSE points[p] ]
     /\ allExtensionPoints' =
          [ id \in PointIds |->
              IF \E p \in ps : points[p].id = id THEN NoPoint
              ELSE allExtensionPoints[id] ]
     /\ exts' = [ e \in DOMAIN exts |->
                    IF e \in xs THEN Extension_dispose(exts[e]) ELSE exts[e] ]
     /\ disposed' = disposed \cup { j \in items : j.kind \notin {"point", "ext"} }
                             \cup inner

\* ------------------------------------------------------------------------
\* The plugin manager
\* ------------------------------------------------------------------------
NoPlugin == 0

EmptyMap == [n \in Names |-> NoPlugin]

\* `name` in getPluginNames is no variable of the function or the module: it
\* is the global of that name, the window's name
GlobalName == "window"

Has(map, key) == key \in Names /\ map[key] # NoPlugin

\* getPluginNames (plugin.ts:244-261, part_000:323-340)
getPluginNames ==
  { pkg.name :
      pkg \in { q \in SystemNpm :
                  /\ ~(Has(availablePlugins.map, GlobalName)
                        \/ Has(loadedPlugins, GlobalName))
                  /\ q.nodeModules = 1 } }

\* gatherPlugins (plugin.ts:232-238): one loadPackage per name
gatherPlugins ==
  [ pc |-> "gather",
    pkgs |-> [ n \in Names |-> IF n \in getPluginNames THEN "json" ELSE "none" ] ]

\* fetchPlugins (plugin.ts:186-195, part_000:265-274)
fetchPlugins ==
  /\ Len(fetches) + Len(loads) < MaxCalls
  /\ LET again == IF version = "plugin.ts"
                  THEN \E n \in Names : availablePlugins.map[n] # NoPlugin
                  ELSE ~availablePlugins.isNull
     IN IF again
        THEN /\ fetches' = Append(fetches, [ pc |-> "npm",
                                             pkgs |-> [n \in Names |-> "none"] ])
             /\ UNCHANGED availablePlugins
        ELSE /\ availablePlugins' = [isNull |-> FALSE, map |-> EmptyMap]
             /\ fetches' = Append(fetches, gatherPlugins)
  /\ UNCHANGED <<engineVars, version, loadedPlugins, plugins, configs, loads>>

\* System.import('package.json!npm') resolves (plugin.ts:190)
NpmLoaded(f) ==
  /\ fetches[f].pc = "npm"
  /\ fetches' = [fetches EXCEPT ![f] = gatherPlugins]
  /\ UNCHANGED <<engineVars, version, availablePlugins, loadedPlugins, plugins,
                 configs, loads>>

\* loadPackage: the package.json of n resolves and addPackage runs
\* (plugin.ts:267-283, part_000:346-367); the later revision adds the Plugin
\* only when Plugin.validate's promise has resolved
PackageLoaded(f, n) ==
  /\ fetches[f].pkgs[n] = "json"
  /\ IF version = "plugin.ts"
     THEN /\ plugins' = Append(plugins, NewPlugin(n, PluginJSON(n)))
          /\ availablePlugins' = [availablePlugins EXCEPT !.map[n] = Len(plugins) + 1]
          /\ fetches' = [fetches EXCEPT ![f].pkgs[n] = "done"]
     ELSE /\ fetches' = [fetches EXCEPT ![f].pkgs[n] = "validate"]
          /\ UNCHANGED <<plugins, availablePlugins>>
  /\ UNCHANGED <<engineVars, version, loadedPlugins, configs, loads>>

\* the promise of Plugin.validate resolves (part_000:360-363)
Validated(f, n) ==
  /\ fetches[f].pkgs[n] = "validate"
  /\ plugins' = Append(plugins, NewPlugin(n, PluginJSON(n)))
  /\ availablePlugins' = [availablePlugins EXCEPT !.map[n] = Len(plugins) + 1]
  /\ fetches' = [fetches EXCEPT ![f].pkgs[n] = "done"]
  /\ UNCHANGED <<engineVars, version, loadedPlugins, configs, loads>>

\* listPlugins (plugin.ts:176-178, part_000:254-257): the keys of
\* availablePlugins
listPlugins == { n \in Names : Has(availablePlugins.map, n) }

\* what listPlugins throws: the later revision reads keys() of null before
\* the first fetchPlugins
listPlugins_error == IF availablePlugins.isNull THEN "TypeError" ELSE "none"

\* the promise fetchPlugins call f returned (plugin.ts:190-193, 232-238,
\* 267-271): Promise.all over the loadPackage promises; a loadPackage
\* promise resolves when addPackage has returned, which in the later
\* revision is before Plugin.validate's promise resolves (part_000:356-367)
FetchStatus(f) ==
  IF /\ fetches[f].pc = "gather"
     /\ \A n \in Names : fetches[f].pkgs[n] # "json"
  THEN "fulfilled" ELSE "pending"

\* what loadPlugin(name) throws before it changes anything: reading a
\* property of null, or the error of plugin.ts:207
loadPlugin_error(name) ==
  IF availablePlugins.isNull THEN "TypeError"
  ELSE IF ~Has(availablePlugins.map, name) THEN "Plugin not in registry"
  ELSE "none"

\* loadPlugin(name) (plugin.ts:204-211, part_000:283-290)
loadPlugin(name) ==
  IF loadPlugin_error(name) # "none"
  THEN UNCHANGED vars
  ELSE /\ Len(fetches) + Len(loads) < MaxCalls
       /\ availablePlugins' = [availablePlugins EXCEPT !.map[name] = NoPlugin]
       /\ loadedPlugins' = [loadedPlugins EXCEPT ![name] = availablePlugins.map[name]]
       /\ Plugin_load(availablePlugins.map[name])
       /\ UNCHANGED <<recvLog, disposed, fails, calls, version, fetches>>

\* unloadPlugin looking the name up among the available plugins
unloadPlugin_ofAvailable(name) ==
  /\ UNCHANGED <<allExtensions, conns, regs, recvLog, fails, calls, version,
                 availablePlugins, loadedPlugins, configs, loads, fetches>>
  /\ IF Has(availablePlugins.map, name)
     THEN Plugin_dispose(availablePlugins.map[name])
     ELSE UNCHANGED <<plugins, points, allExtensionPoints, exts, disposed>>

\* unloadPlugin(name) (plugin.ts:220-224, part_000:299-303)
unloadPlugin(name) ==
  /\ UNCHANGED <<allExtensions, conns, regs, recvLog, fails, calls, version,
                 availablePlugins, loadedPlugins, configs, loads, fetches>>
  /\ IF Has(loadedPlugins, name)
     THEN Plugin_dispose(loadedPlugins[name])
     ELSE UNCHANGED <<plugins, points, allExtensionPoints, exts, disposed>>

ManagerInit ==
  /\ loadedPlugins = EmptyMap
  /\ plugins = <<>>
  /\ configs = ManifestConfigs
  /\ loads = <<>>
  /\ fetches = <<>>

\* ------------------------------------------------------------------------
\* The specifications
\* ------------------------------------------------------------------------
\* the registry alone, driven by calls of loadExtensionPoint and loadExtension
InitReg ==
  /\ EngineInit
  /\ ManagerInit
  /\ version = "plugin.ts"
  /\ availablePlugins = [isNull |-> FALSE, map |-> EmptyMap]

NextReg ==
  \/ \E config \in PointConfigs : CallLoadExtensionPoint(config)
  \/ \E config \in ExtConfigs : CallLoadExtension(config)
  \/ NextResolve
  \/ NextFail

SpecReg == InitReg /\ [][NextReg]_vars

\* the registry when every resolution succeeds; a pending resolution
\* completes eventually
NextRegOK ==
  \/ \E config \in PointConfigs : CallLoadExtensionPoint(config)
  \/ \E config \in ExtConfigs : CallLoadExtension(config)
  \/ NextResolve

SpecRegOK == InitReg /\ [][NextRegOK]_vars /\ WF_vars(NextResolve)

\* ------------------------------------------------------------------------
\* The registry with disposal: the caller of loadExtensionPoint /
\* loadExtension disposes the IDisposable the promise resolved with, and
\* may register an id again
\* ------------------------------------------------------------------------
\* the registrations whose promise has handed object obj to the caller
Resolved(kind, obj) ==
  \E k \in DOMAIN regs :
    /\ regs[k].kind = kind
    /\ regs[k].obj = obj
    /\ RegStatus(regs[k], conns) = "fulfilled"

\* loadExtensionPoint(config), whether or not the id is registered
RegisterPoint(config) ==
  /\ Len(points) < MaxPoints
  /\ SetRegistry(loadExtensionPoint(Registry, config, 0))
  /\ UNCHANGED <<recvLog, disposed, fails, calls, managerVars>>

\* ExtensionPoint.dispose called on point p (extension.ts:164-168): the id
\* is deleted from the registry, whichever point is registered under it
DisposePoint(p) ==
  /\ Resolved("point", p)
  /\ allExtensionPoints' = [allExtensionPoints EXCEPT ![points[p].id] = NoPoint]
  /\ points' = [points EXCEPT ![p] = ExtensionPoint_dispose(@)]
  /\ disposed' = disposed \cup DisposableSet_items(points[p].disposables)
  /\ UNCHANGED <<exts, allExtensions, conns, regs, recvLog, fails, calls,
                 managerVars>>

\* Extension.dispose called on extension e (extension.ts:266-269)
DisposeExtension(e) ==
  /\ Resolved("ext", e)
  /\ exts' = [exts EXCEPT ![e] = Extension_dispose(@)]
  /\ disposed' = disposed \cup DisposableSet_items(exts[e].disposables)
  /\ UNCHANGED <<points, allExtensionPoints, allExtensions, conns, regs,
                 recvLog, fails, calls, managerVars>>

NextDispose ==
  \/ \E config \in PointConfigs : RegisterPoint(config)
  \/ \E config \in ExtConfigs : CallLoadExtension(config)
  \/ \E p \in DOMAIN points : DisposePoint(p)
  \/ \E e \in DOMAIN exts : DisposeExtension(e)
  \/ NextResolve

SpecDispose == InitReg /\ [][NextDispose]_vars

\* ------------------------------------------------------------------------
\* Extension by itself: initialize() and load() called on the object that
\* the promise of loadExtension resolved with, any number of times
\* ------------------------------------------------------------------------
\* an extension that contributes its inline `config` only (extension.ts:15-65:
\* loader, data and initializer are optional)
ConfigOnly ==
  [ point |-> "P", module |-> <<"m">>, loader |-> FALSE, data |-> Absent,
    initializer |-> FALSE ]

UnitExtConfigs == ExtConfigs \cup {ConfigOnly}

NoResult == [live |-> FALSE, data |-> FALSE, object |-> FALSE]

\* Extension.load called on extension e (extension.ts:293-296, 301-305,
\* 314-318): both resolutions start
CallLoad(e) ==
  /\ Len(calls) < MaxMethodCalls
  /\ calls' = Append(calls,
       [ ext |-> e, op |-> "load", pc |-> "extLoad",
         dataSt |-> IF exts[e].data # Absent THEN "pending" ELSE "none",
         objSt |-> IF exts[e].loader THEN "import" ELSE "none",
         resolved |-> FALSE, result |-> NoResult ])
  /\ UNCHANGED <<points, exts, allExtensionPoints, allExtensions, conns, regs,
                 recvLog, disposed, fails, managerVars>>

\* _loadData's System.import resolves for call d (extension.ts:305-308)
CallDataLoaded(d) ==
  /\ calls[d].dataSt = "pending"
  /\ LET e == calls[d].ext
     IN IF exts[e].extension.live
        THEN /\ exts' = [exts EXCEPT ![e].extension.data = TRUE]
             /\ calls' = [calls EXCEPT ![d].dataSt = "done"]
        ELSE /\ exts' = exts
             /\ calls' = [calls EXCEPT ![d].dataSt = "failed",
                                       ![d].pc = FailedLoad(@)]
  /\ UNCHANGED <<points, allExtensionPoints, allExtensions, conns, regs,
                 recvLog, disposed, fails, managerVars>>

\* _loadObject's System.import resolves for call d (extension.ts:318-320)
CallObjModuleLoaded(d) ==
  /\ calls[d].objSt = "import"
  /\ calls' = [calls EXCEPT ![d].objSt = "loader"]
  /\ UNCHANGED <<points, exts, allExtensionPoints, allExtensions, conns, regs,
                 recvLog, disposed, fails, managerVars>>

\* the loader's promise resolves for call d (extension.ts:320-323)
CallLoaderResolved(d) ==
  /\ calls[d].objSt = "loader"
  /\ LET e == calls[d].ext
     IN IF exts[e].extension.live
        THEN /\ exts' = [exts EXCEPT ![e].extension.object = TRUE]
             /\ calls' = [calls EXCEPT ![d].objSt = "done"]
        ELSE /\ exts' = exts
             /\ calls' = [calls EXCEPT ![d].objSt = "failed",
                                       ![d].pc = FailedLoad(@)]
  /\ UNCHANGED <<points, allExtensionPoints, allExtensions, conns, regs,
                 recvLog, disposed, fails, managerVars>>

\* Promise.all of load call d is through: the promise resolves with
\* this._extension as it is now (extension.ts:294-295)
CallLoadResolved(d) ==
  /\ calls[d].pc = "extLoad"
  /\ calls[d].dataSt \in {"none", "done"}
  /\ calls[d].objSt \in {"none", "done"}
  /\ calls' = [calls EXCEPT ![d].pc = "done", ![d].resolved = TRUE,
                            ![d].result = exts[calls[d].ext].extension]
  /\ UNCHANGED <<points, exts, allExtensionPoints, allExtensions, conns, regs,
                 recvLog, disposed, fails, managerVars>>

\* Extension.initialize called on extension e (extension.ts:274-287)
CallInitialize(e) ==
  /\ Len(calls) < MaxMethodCalls
  /\ LET init == Extension_initialize(exts[e])
     IN /\ exts' = [exts EXCEPT ![e] = init.ext]
        /\ calls' = Append(calls,
             [ ext |-> e, op |-> "initialize", pc |-> init.pc,
               dataSt |-> "none", objSt |-> "none",
               resolved |-> init.pc = "done", result |-> NoResult ])
  /\ UNCHANGED <<points, allExtensionPoints, allExtensions, conns, regs,
                 recvLog, disposed, fails, managerVars>>

\* initialize's System.import resolves for call d: the initializer is
\* called (extension.ts:277-279)
CallInitModuleLoaded(d) ==
  /\ calls[d].pc = "einit1"
  /\ exts' = [exts EXCEPT ![calls[d].ext].initCalls = @ + 1]
  /\ calls' = [calls EXCEPT ![d].pc = "einit2"]
  /\ UNCHANGED <<points, allExtensionPoints, allExtensions, conns, regs,
                 recvLog, disposed, fails, managerVars>>

\* the initializer's promise resolves for call d (extension.ts:279-283);
\* the handle of call d is numbered -d, apart from those of connect calls
CallInitResolved(d) ==
  /\ calls[d].pc = "einit2"
  /\ LET e == calls[d].ext
         disposable == Item("einit", 0 - d)
         ok == HasOwnDispose(disposable.kind) => DisposableSet_canAdd(exts[e].disposables)
     IN /\ exts' =
             [ exts EXCEPT
                 ![e].disposables =
                    IF HasOwnDispose(disposable.kind) /\ ok
                    THEN DisposableSet_add(@, disposable) ELSE @ ]
        /\ calls' = [calls EXCEPT ![d].pc = IF ok THEN "done" ELSE "failed",
                                  ![d].resolved = ok]
  /\ UNCHANGED <<points, allExtensionPoints, allExtensions, conns, regs,
                 recvLog, disposed, fails, managerVars>>

NextExt ==
  \/ \E config \in UnitExtConfigs : CallLoadExtension(config)
  \/ \E e \in DOMAIN exts : CallLoad(e)
  \/ \E e \in DOMAIN exts : CallInitialize(e)
  \/ \E d \in DOMAIN calls : CallDataLoaded(d)
  \/ \E d \in DOMAIN calls : CallObjModuleLoaded(d)
  \/ \E d \in DOMAIN calls : CallLoaderResolved(d)
  \/ \E d \in DOMAIN calls : CallLoadResolved(d)
  \/ \E d \in DOMAIN calls : CallInitModuleLoaded(d)
  \/ \E d \in DOMAIN calls : CallInitResolved(d)

SpecExt == InitReg /\ [][NextExt]_vars

\* ------------------------------------------------------------------------
\* The registry with two ids: extensions are also contributed to an id, "Q",
\* that no extension point is registered for
\* ------------------------------------------------------------------------
QueueIds == PointIds \cup {"Q"}

QueueExtConfigs == ExtConfigs \cup { [ConfigOnly EXCEPT !.point = "Q"] }

InitQueue ==
  /\ points = <<>>
  /\ exts = <<>>
  /\ allExtensionPoints = [i \in QueueIds |-> NoPoint]
  /\ allExtensions = [i \in QueueIds |-> <<>>]
  /\ conns = <<>>
  /\ regs = <<>>
  /\ recvLog = <<>>
  /\ disposed = {}
  /\ fails = 0
  /\ calls = <<>>
  /\ ManagerInit
  /\ version = "plugin.ts"
  /\ availablePlugins = [isNull |-> FALSE, map |-> EmptyMap]

NextQueue ==
  \/ \E config \in PointConfigs : CallLoadExtensionPoint(config)
  \/ \E config \in QueueExtConfigs : CallLoadExtension(config)
  \/ \E p \in DOMAIN points : DisposePoint(p)
  \/ NextResolve

SpecQueue == InitQueue /\ [][NextQueue]_vars

\* ------------------------------------------------------------------------
\* Discovery with validation (part_000): the declarations found in the
\* package.json files are inputs; a field of a declaration is modelled by
\* the kind of its value
\* ------------------------------------------------------------------------
\* the packages of System.npm that getPluginNames returns
Packages == { n \in Names : \E pkg \in SystemNpm : pkg.name = n /\ pkg.nodeModules = 1 }

\* a declaration with every supported field, each of the right type
\* (plugin.ts:613-618): the two lists are empty arrays; phosphide: whether
\* the package.json has a `phosphide` member at all; other: whether the
\* declaration has a field outside the four of IPluginJSON
FullDeclaration ==
  [ phosphide |-> TRUE, main |-> "string", initializer |-> "string",
    extensionPoints |-> "array", extensions |-> "array", other |-> FALSE ]

\* the declarations a package.json is read with: the full one, one with no
\* field, one per defect Plugin.validate looks for, and no declaration
Declarations ==
  { FullDeclaration,
    [FullDeclaration EXCEPT !.main = "absent", !.initializer = "absent",
                            !.extensionPoints = "absent", !.extensions = "absent"],
    [FullDeclaration EXCEPT !.main = "number"],
    [FullDeclaration EXCEPT !.initializer = "number"],
    [FullDeclaration EXCEPT !.extensionPoints = "object"],
    [FullDeclaration EXCEPT !.extensions = "object"],
    [FullDeclaration EXCEPT !.other = TRUE],
    [FullDeclaration EXCEPT !.phosphide = FALSE] }

\* Plugin.validate (part_000:65-136) on the declaration `options` of package
\* `name`: the System.import calls it has started, in order, and the error
\* it throws ("none": it returns Promise.all of the checks it started)
Plugin_validate(name, options) ==
  LET hasMain == options.main # "absent"
      hasInit == options.initializer # "absent"
      mainMod == IF hasMain THEN Path(name, <<"main">>) ELSE Absent
      afterMain == IF hasMain THEN <<mainMod>> ELSE <<>>
      afterInit == IF hasInit THEN Append(afterMain, mainMod) ELSE afterMain
  IN IF hasMain /\ options.main # "string"
     THEN [error |-> "main module must be a string.", imports |-> <<>>]
     ELSE IF hasInit /\ options.initializer # "string"
     THEN [error |-> "Initializer must be a string", imports |-> afterMain]
     ELSE IF options.extensionPoints \notin {"absent", "array"}
     THEN [error |-> "Extension points must be an array.", imports |-> afterInit]
     ELSE IF options.extensions \notin {"absent", "array"}
     THEN [error |-> "extensions must be an array.", imports |-> afterInit]
     ELSE IF options.other
     THEN [error |-> "field not supported", imports |-> afterInit]
     ELSE [error |-> "none", imports |-> afterInit]

\* addPackage that waits for the checks whatever Plugin.validate threw
addPackage_ignoresError(name, config) == "validate"

\* addPackage (part_000:356-367), its synchronous part: what has become of
\* the package when it returns or throws; an error thrown here rejects the
\* promise of loadPackage's callback and is logged by its catch
\* (part_000:346-350)
addPackage(name, config) ==
  IF ~config.phosphide THEN "thrown"
  ELSE IF Plugin_validate(name, config).error # "none" THEN "thrown"
  ELSE "validate"

\* the options the Plugin constructor reads from a declaration that passed
\* Plugin.validate (part_000:141-152)
PluginOptions(config) ==
  [ main |-> <<"main">>, initializer |-> config.initializer = "string",
    extensionPoints |-> IF config.extensionPoints = "array" THEN List(<<>>)
                        ELSE NullList,
    extensions |-> IF config.extensions = "array" THEN List(<<>>) ELSE NullList ]

\* loadPackage: the package.json of n resolves and addPackage runs
\* (part_000:346-367)
LoadPackageResolved(f, n) ==
  /\ fetches[f].pkgs[n] = "json"
  /\ fetches' = [fetches EXCEPT ![f].pkgs[n] = addPackage(n, configs[n])]
  /\ UNCHANGED <<engineVars, version, availablePlugins, loadedPlugins, plugins,
                 configs, loads>>

\* the promise of Plugin.validate resolves: `main` defaults to that of the
\* package.json and the Plugin is added (part_000:360-363)
ValidateResolved(f, n) ==
  /\ fetches[f].pkgs[n] = "validate"
  /\ configs' = [configs EXCEPT ![n].main = IF @ = "absent" THEN "string" ELSE @]
  /\ plugins' = Append(plugins, NewPlugin(n, PluginOptions(configs'[n])))
  /\ availablePlugins' = [availablePlugins EXCEPT !.map[n] = Len(plugins) + 1]
  /\ fetches' = [fetches EXCEPT ![f].pkgs[n] = "done"]
  /\ UNCHANGED <<engineVars, version, loadedPlugins, loads>>

\* a check Plugin.validate started fails: its promise rejects and the error
\* is logged (part_000:80-84, 94-102, 363)
ValidateRejected(f, n) ==
  /\ fetches[f].pkgs[n] = "validate"
  /\ Plugin_validate(n, configs[n]).imports # <<>>
  /\ fails < MaxFails
  /\ fails' = fails + 1
  /\ fetches' = [fetches EXCEPT ![f].pkgs[n] = "rejected"]
  /\ UNCHANGED <<points, exts, allExtensionPoints, allExtensions, conns, regs,
                 recvLog, disposed, calls, version, availablePlugins,
                 loadedPlugins, plugins, configs, loads>>

InitValidate ==
  /\ EngineInit
  /\ loadedPlugins = EmptyMap
  /\ plugins = <<>>
  /\ loads = <<>>
  /\ fetches = <<>>
  /\ version = "part_000"
  /\ availablePlugins = [isNull |-> TRUE, map |-> EmptyMap]
  /\ configs \in [Packages -> Declarations]

NextValidate ==
  \/ Len(fetches) < MaxFetches /\ fetchPlugins
  \/ \E f \in DOMAIN fetches : NpmLoaded(f)
  \/ \E f \in DOMAIN fetches, n \in Packages : LoadPackageResolved(f, n)
  \/ \E f \in DOMAIN fetches, n \in Packages : ValidateResolved(f, n)
  \/ \E f \in DOMAIN fetches, n \in Packages : ValidateRejected(f, n)

SpecValidate == InitValidate /\ [][NextValidate]_vars

\* the plugin manager: fetchPlugins, loadPlugin and unloadPlugin, in either
\* revision
Init ==
  /\ EngineInit
  /\ ManagerInit
  /\ version \in {"plugin.ts", "part_000"}
  /\ availablePlugins = [isNull |-> version = "part_000", map |-> EmptyMap]

NextManager ==
  \/ fetchPlugins
  \/ \E f \in DOMAIN fetches : NpmLoaded(f)
  \/ \E f \in DOMAIN fetches, n \in Names : PackageLoaded(f, n)
  \/ \E f \in DOMAIN fetches, n \in Names : Validated(f, n)
  \/ \E name \in Names : loadPlugin(name)
  \/ \E name \in Names : unloadPlugin(name)

Next ==
  \/ NextManager
  \/ NextResolve
  \/ NextFail

Spec == Init /\ [][Next]_vars

\* ------------------------------------------------------------------------
\* Properties of the registry (SpecReg, SpecRegOK)
\* ------------------------------------------------------------------------
\* the receiver invocations made with Extension e
Deliveries(e) == { i \in DOMAIN recvLog : conns[recvLog[i].conn].ext = e }

\* the connect calls made on ExtensionPoint p
ConnsOf(p) == { c \in DOMAIN conns : conns[c].point = p }

\* every extension whose point is registered has been delivered, once
AllDelivered ==
  \A e \in DOMAIN exts :
    allExtensionPoints[exts[e].point] # NoPoint
      => Cardinality(Deliveries(e)) = 1

\* C1: extensions and their extension point may be registered in any order:
\* when every resolution succeeds, each extension registered for the point,
\* before or after it, is delivered to the point's receiver, and no
\* extension is delivered more than once.
C1_OrderIndependence ==
  /\ [](\A e \in DOMAIN exts : Cardinality(Deliveries(e)) <= 1)
  /\ []<>AllDelivered

\* one extension registered before the point and one after it, both delivered
C1_Witness ==
  /\ Len(exts) = 2
  /\ \E i, j, k \in DOMAIN regs :
       /\ i < j /\ j < k
       /\ regs[i].kind = "ext" /\ regs[j].kind = "point" /\ regs[k].kind = "ext"
  /\ \A e \in DOMAIN exts : Cardinality(Deliveries(e)) = 1

\* C2: the initializer of an extension point is invoked at most once,
\* however many connect calls are started before the first has finished
\* loading, and it has been invoked exactly once when the connect calls made
\* on the point have all resolved.
C2_InitializerOnce ==
  \A p \in DOMAIN points :
    /\ points[p].initCalls <= 1
    /\ ( /\ points[p].initializer
         /\ ConnsOf(p) # {}
         /\ \A c \in ConnsOf(p) : conns[c].pc = "done" )
       => points[p].initCalls = 1

\* two connect calls started by one loadExtensionPoint, both resolved
C2_Witness ==
  \E k \in DOMAIN regs :
    /\ regs[k].kind = "point"
    /\ Cardinality(regs[k].conns) = 2
    /\ points[regs[k].obj].initializer
    /\ points[regs[k].obj].initCalls = 1
    /\ \A c \in regs[k].conns : conns[c].pc = "done"

\* C3: the receiver of a point that has an initializer is invoked with an
\* extension only after the initializer's promise has resolved.
C3_ReceiverAfterInitializer ==
  \A i \in DOMAIN recvLog :
    LET p == conns[recvLog[i].conn].point
    IN points[p].initializer => points[p].initDone

\* C4: the receiver of a point is invoked with the extensions in the order
\* connect was called with them, whatever the order in which their loads
\* complete.
C4_ReceiverInConnectOrder ==
  \A i, j \in DOMAIN recvLog :
    ( /\ i < j
      /\ conns[recvLog[i].conn].point = conns[recvLog[j].conn].point )
    => recvLog[i].conn < recvLog[j].conn

\* ------------------------------------------------------------------------
\* Properties of Plugin and the plugin manager (Spec)
\* ------------------------------------------------------------------------
\* the registrations made by the Plugin.load calls of Plugin pl
RegsOf(pl) ==
  { k \in DOMAIN regs : regs[k].owner # 0 /\ loads[regs[k].owner].plugin = pl }

\* C5: Plugin.load runs the plugin's initializer exactly once, after the
\* registration of every declared entry has completed, and the promise it
\* returns resolves only after the initializer has run.
C5_PluginInitializerRuns ==
  \A l \in DOMAIN loads :
    LET plugin == plugins[loads[l].plugin]
    IN (LoadStatus(l, regs, conns) = "fulfilled" /\ plugin.initializer)
         => plugin.initCalls = 1

\* C6: once the load of a Plugin has completed, its lists of declared
\* extension points and extensions are empty, and a second load of the same
\* Plugin registers nothing.
C6_ListsClearedByLoad ==
  \A l \in DOMAIN loads :
    LET plugin == plugins[loads[l].plugin]
        S == [R |-> Registry, configs |-> configs]
    IN LoadStatus(l, regs, conns) = "fulfilled"
         => /\ plugin.extensionPoints.items = <<>>
            /\ plugin.extensions.items = <<>>
            /\ Plugin_loadEntries(S, plugin, plugin.extensionPoints.items,
                                  plugin.extensions.items, Len(loads) + 1) = S

\* C7: disposing a Plugin disposes every extension point and extension its
\* load registered, and every cleanup handle these hold.
C7_DisposeReachesAll ==
  [][ \A pl \in DOMAIN plugins :
        (~plugins[pl].disposables.isDisposed /\ plugins'[pl].disposables.isDisposed)
          => \A k \in RegsOf(pl) :
               IF regs[k].kind = "point"
               THEN /\ points'[regs[k].obj].disposables.isDisposed
                    /\ points[regs[k].obj].disposables.set \subseteq disposed'
               ELSE /\ exts'[regs[k].obj].disposables.isDisposed
                    /\ exts[regs[k].obj].disposables.set \subseteq disposed' ]_vars

\* C8: Plugin.load registers every declared entry; a resolution that fails
\* for one entry changes no other connect call, and the promise Plugin.load
\* returned is never rejected.
C8_FailureIsolated ==
  [][ /\ \A l \in DOMAIN loads' :
           /\ LoadStatus(l, regs', conns') # "rejected"
           /\ l \notin DOMAIN loads
                => LET plugin == plugins[loads'[l].plugin]
                   IN Cardinality({ k \in DOMAIN regs' : regs'[k].owner = l })
                        = Len(plugin.extensionPoints.items)
                            + Len(plugin.extensions.items)
      /\ \A c \in DOMAIN conns :
           (conns[c].pc # "failed" /\ conns'[c].pc = "failed")
             => \A d \in DOMAIN conns \ {c} : conns'[d] = conns[d] ]_vars

\* an entry of a load has failed, another entry of the same load has
\* resolved, and the promise of the load is fulfilled
C8_Witness ==
  \E l \in DOMAIN loads :
    /\ LoadStatus(l, regs, conns) = "fulfilled"
    /\ \E j, k \in DOMAIN regs :
         /\ regs[j].owner = l /\ regs[k].owner = l
         /\ RegStatus(regs[j], conns) = "rejected"
         /\ regs[k].conns # {}
         /\ RegStatus(regs[k], conns) = "fulfilled"

\* C9: loadPlugin(name) with a name that is not among the available plugins
\* throws 'Plugin not in registry', in every state of the manager, the state
\* before the first fetchPlugins included.
C9_UnknownNameError ==
  \A name \in Names :
    (availablePlugins.isNull \/ ~Has(availablePlugins.map, name))
      => loadPlugin_error(name) = "Plugin not in registry"

\* C10: unloadPlugin(name) disposes the Plugin when name is among the loaded
\* plugins, and changes nothing when it is not or when the Plugin has been
\* disposed already.
C10_UnloadPlugin ==
  [][ vars' # vars
        => \A name \in Names :
             unloadPlugin(name)
               => IF Has(loadedPlugins, name)
                       /\ ~plugins[loadedPlugins[name]].disposables.isDisposed
                  THEN /\ plugins'[loadedPlugins[name]].disposables.isDisposed
                       /\ plugins'[loadedPlugins[name]].extensionPoints = NullList
                       /\ plugins'[loadedPlugins[name]].extensions = NullList
                  ELSE UNCHANGED vars ]_vars

\* a loaded plugin has been unloaded: it is disposed, and its name is still
\* among the loaded plugins, where a second unloadPlugin finds it
C10_Witness ==
  \E name \in Names :
    /\ Has(loadedPlugins, name)
    /\ plugins[loadedPlugins[name]].disposables.isDisposed
    /\ plugins[loadedPlugins[name]].extensions = NullList

\* C11: no name is both among the available and among the loaded plugins:
\* a fetchPlugins made again skips the names that are loaded or available,
\* so listPlugins never returns the name of a loaded plugin.
C11_AvailableLoadedDisjoint ==
  /\ listPlugins = { n \in Names : Has(availablePlugins.map, n) }
  /\ \A n \in listPlugins : ~Has(loadedPlugins, n)

\* C12: when the promise of a fetchPlugins call is fulfilled, every package
\* it discovered has been added: it is among the available plugins, or has
\* been loaded from there since.
C12_FetchedAreAvailable ==
  \A f \in DOMAIN fetches :
    FetchStatus(f) = "fulfilled"
      => \A n \in Names :
           fetches[f].pkgs[n] # "none"
             => (Has(availablePlugins.map, n) \/ Has(loadedPlugins, n))

\* C13: after loadPlugin(p) and unloadPlugin(p), a second loadPlugin(p)
\* throws nothing, and an unloaded plugin leaves nothing of its own in the
\* two registries.
C13_LoadUnloadTwice ==
  \A name \in Names :
    (Has(loadedPlugins, name)
       /\ plugins[loadedPlugins[name]].disposables.isDisposed)
      => /\ loadPlugin_error(name) = "none"
         /\ \A k \in RegsOf(loadedPlugins[name]) :
              IF regs[k].kind = "point"
              THEN \A id \in PointIds : allExtensionPoints[id] # regs[k].obj
              ELSE \A id \in PointIds :
                     \A i \in DOMAIN allExtensions[id] :
                       allExtensions[id][i] # regs[k].obj

\* the plugin whose load registered Extension e / ExtensionPoint p
PluginOf(kind, obj) ==
  CHOOSE pl \in DOMAIN plugins :
    \E k \in RegsOf(pl) : regs[k].kind = kind /\ regs[k].obj = obj

\* the plugin whose module, data file, loader or initializer the pending
\* resolution of connect call c belongs to: the point's up to the point's
\* initializer, the extension's from Extension.load on
ResolutionOf(c) ==
  IF conns[c].pc \in {"load", "init1", "init2"}
  THEN PluginOf("point", conns[c].point)
  ELSE PluginOf("ext", conns[c].ext)

\* C19: a resolution that stalls stalls only the load of the plugin it
\* belongs to: while the promise of a Plugin.load call is pending, a
\* resolution of that plugin is pending (or a callback is due), also when
\* another plugin contributed a buffered extension to a point of the plugin.
C19_StallIsLocal ==
  \A l \in DOMAIN loads :
    LoadStatus(l, regs, conns) = "pending"
      => \E c \in DOMAIN conns :
           \/ conns[c].pc = "ready"
           \/ /\ conns[c].pc \in {"load", "init1", "init2", "extLoad",
                                  "einit1", "einit2"}
              /\ ResolutionOf(c) = loads[l].plugin

\* C15: when the module resolution or the initializer of an extension point
\* fails during a connect call, the point stays not initialized, so that a
\* later connect call runs the load and the initializer again: a point with
\* an initializer is flagged initialized only while its initializer is
\* being run or after it has completed.
C15_FailedInitializerRetried ==
  \A p \in DOMAIN points :
    (points[p].initializer /\ points[p].initialized)
      => \/ points[p].initDone
         \/ \E c \in ConnsOf(p) : conns[c].pc \in {"init1", "init2"}

\* C17: Extension.load resolves data and object independently: no module
\* resolution or loader call without a loader, no data resolution without a
\* data path, and the contribution handed to the receiver has an object
\* exactly if a loader is configured and data exactly if a data path is.
C17_LoadIndependent ==
  /\ \A c \in DOMAIN conns :
       /\ ~exts[conns[c].ext].loader => conns[c].objSt \in {"idle", "none"}
       /\ exts[conns[c].ext].data = Absent => conns[c].dataSt \in {"idle", "none"}
  /\ \A i \in DOMAIN recvLog :
       LET x == exts[conns[recvLog[i].conn].ext]
       IN /\ recvLog[i].result.object = x.loader
          /\ recvLog[i].result.data = (x.data # Absent)

\* a data-only extension and a loader-only extension have both been handed
\* to a receiver
C17_Witness ==
  /\ \E i \in DOMAIN recvLog :
       /\ recvLog[i].result.data /\ ~recvLog[i].result.object
  /\ \E i \in DOMAIN recvLog :
       /\ recvLog[i].result.object /\ ~recvLog[i].result.data

\* ------------------------------------------------------------------------
\* Properties of disposal (SpecDispose)
\* ------------------------------------------------------------------------
\* C14: disposal is idempotent: a dispose of an ExtensionPoint or Extension
\* that is disposed already changes nothing; in particular it does not
\* remove from the registry another point registered under the same id
\* since.
C14_DisposeIdempotent ==
  [][ /\ \A p \in DOMAIN points :
           (DisposePoint(p) /\ points[p].disposables.isDisposed)
             => UNCHANGED vars
      /\ \A e \in DOMAIN exts :
           (DisposeExtension(e) /\ exts[e].disposables.isDisposed)
             => UNCHANGED vars ]_vars

\* C20: at most one ExtensionPoint that is not disposed exists for an id.
C20_OneLivePointPerId ==
  \A p, q \in DOMAIN points :
    (p # q /\ points[p].id = points[q].id)
      => \/ points[p].disposables.isDisposed
         \/ points[q].disposables.isDisposed

\* ------------------------------------------------------------------------
\* Properties of Extension by itself (SpecExt)
\* ------------------------------------------------------------------------
\* C16: the initializer of an Extension is invoked at most once, however
\* many times initialize is called on the Extension, one call after the
\* other or overlapping.
C16_ExtensionInitializerOnce ==
  \A e \in DOMAIN exts : exts[e].initCalls <= 1

\* C18: every Extension.load call whose promise resolves yields a complete
\* contribution: it is not absent and has each configured field, also when
\* the call is made after initialize has run on the Extension.
C18_LoadYieldsContribution ==
  \A d \in DOMAIN calls :
    (calls[d].op = "load" /\ calls[d].resolved)
      => LET x == exts[calls[d].ext]
         IN /\ calls[d].result.live
            /\ calls[d].result.data = (x.data # Absent)
            /\ calls[d].result.object = x.loader

C22_ValidationBeforeLoading ==
  \A f \in DOMAIN fetches : \A n \in Packages :
    (fetches[f].pkgs[n] = "thrown" /\ configs[n].phosphide)
      => Plugin_validate(n, configs[n]).imports = <<>>

\* ------------------------------------------------------------------------
\* Further properties of the registry (SpecReg)
\* ------------------------------------------------------------------------
\* C23: connect calls that arrive before the point is loaded share one
\* load: the point's module resolution (_load's System.import) is pending
\* for at most one connect call of a point at a time.
C23_SharedLoad ==
  \A p \in DOMAIN points :
    Cardinality({ c \in ConnsOf(p) : conns[c].pc = "load" }) <= 1

\* the connect calls that have handed their extension to the receiver
Delivered == { recvLog[i].conn : i \in DOMAIN recvLog }

\* C24: loadExtensionPoint takes the whole pending queue of its id and
\* calls connect for the buffered extensions in arrival order; its promise
\* is fulfilled only when the receiver has been invoked with every one of
\* them and the initialize of every one of them has completed.
C24_PointWaitsForQueue ==
  \A k \in DOMAIN regs :
    regs[k].kind = "point"
      => LET p == regs[k].obj
             cs == regs[k].conns
         IN /\ allExtensions[points[p].id] = <<>>
            /\ { conns[c].ext : c \in cs }
                 = { regs[j].obj : j \in { i \in 1..(k - 1) : regs[i].kind = "ext" } }
            /\ \A c, d \in cs :
                 /\ conns[c].point = p
                 /\ c < d => conns[c].ext < conns[d].ext
            /\ RegStatus(regs[k], conns) = "fulfilled"
                 => \A c \in cs :
                      LET x == exts[conns[c].ext]
                      IN /\ c \in Delivered
                         /\ ~x.extension.live
                         /\ x.initializer
                              => /\ x.initCalls = 1
                                 /\ Item("einit", c) \in x.disposables.set

\* the promise of a loadExtensionPoint that found two buffered extensions,
\* one of them with an initializer, is fulfilled
C24_Witness ==
  \E k \in DOMAIN regs :
    /\ regs[k].kind = "point"
    /\ Cardinality(regs[k].conns) = 2
    /\ RegStatus(regs[k], conns) = "fulfilled"
    /\ \E c \in regs[k].conns : exts[conns[c].ext].initCalls = 1

\* C26: Extension.load issues the data resolution and the object resolution
\* together, neither waiting for the other, and its promise resolves (the
\* receiver is called) only after both have completed.
C26_LoadConcurrent ==
  \A c \in DOMAIN conns :
    /\ (conns[c].dataSt = "idle") <=> (conns[c].objSt = "idle")
    /\ exts[conns[c].ext].data # Absent /\ conns[c].objSt # "idle"
         => conns[c].dataSt # "none"
    /\ exts[conns[c].ext].loader /\ conns[c].dataSt # "idle"
         => conns[c].objSt # "none"
    /\ (c \in Delivered \/ conns[c].pc \in {"einit1", "einit2", "done"})
         => /\ conns[c].dataSt \in {"none", "done"}
            /\ conns[c].objSt \in {"none", "done"}

\* both resolutions of one Extension.load are pending at once, and another
\* extension with both has been handed to the receiver
C26_Witness ==
  /\ \E c \in DOMAIN conns :
       conns[c].dataSt = "pending" /\ conns[c].objSt \in {"import", "loader"}
  /\ \E c \in Delivered :
       conns[c].dataSt = "done" /\ conns[c].objSt = "done"

\* C30: the steps of one connect are ordered: the receiver is invoked only
\* after the extension's load has completed, Extension.initialize and the
\* extension's initializer only after the receiver has returned; when the
\* load or the receiver fails, the initializer is never invoked.
C30_ConnectStepsOrdered ==
  \A c \in DOMAIN conns :
    LET x == exts[conns[c].ext]
        loaded == /\ conns[c].dataSt \in {"none", "done"}
                  /\ conns[c].objSt \in {"none", "done"}
    IN /\ c \in Delivered => loaded
       /\ conns[c].pc \in {"einit1", "einit2", "done"} => c \in Delivered
       /\ ~x.extension.live => c \in Delivered
       /\ x.initCalls > 0 => (c \in Delivered /\ ~x.extension.live)
       /\ (conns[c].dataSt = "failed" \/ conns[c].objSt = "failed")
            => (c \notin Delivered /\ x.extension.live /\ x.initCalls = 0)
       /\ (conns[c].pc = "failed" /\ x.extension.live) => x.initCalls = 0

\* one connect has run the initializer of its extension after the receiver,
\* another has failed in the receiver and has not run it
C30_Witness ==
  /\ \E c \in Delivered :
       /\ conns[c].pc = "done"
       /\ exts[conns[c].ext].initCalls = 1
  /\ \E c \in Delivered :
       /\ conns[c].pc = "failed"
       /\ exts[conns[c].ext].initializer
       /\ exts[conns[c].ext].extension.live
       /\ exts[conns[c].ext].initCalls = 0

\* ------------------------------------------------------------------------
\* Properties of the registry with two ids (SpecQueue)
\* ------------------------------------------------------------------------
\* C25: loadExtension for an id with no registered point appends the new
\* extension at the end of the pending queue of that id and returns a
\* resolved promise; it starts no connect call, so no resolution, no
\* receiver and no initializer, and leaves the registered points and the
\* queues of all other ids as they are.
C25_LoadExtensionBuffers ==
  [][ Len(exts') > Len(exts)
        => \A config \in QueueExtConfigs :
             (CallLoadExtension(config)
                /\ allExtensionPoints[config.point] = NoPoint)
               => LET e == Len(exts) + 1
                  IN /\ allExtensions'[config.point]
                          = Append(allExtensions[config.point], e)
                     /\ exts' = Append(exts, NewExtension(config))
                     /\ regs'[Len(regs')].obj = e
                     /\ RegStatus(regs'[Len(regs')], conns') = "fulfilled"
                     /\ conns' = conns
                     /\ recvLog' = recvLog
                     /\ points' = points
                     /\ allExtensionPoints' = allExtensionPoints
                     /\ \A id \in QueueIds \ {config.point} :
                          allExtensions'[id] = allExtensions[id] ]_vars

\* two extensions are buffered for one id and nothing else has happened
C25_Witness ==
  /\ \E id \in QueueIds : allExtensions[id] = <<1, 2>>
  /\ conns = <<>>
  /\ \A k \in DOMAIN regs : RegStatus(regs[k], conns) = "fulfilled"

\* C27: no id has both a registered point and a pending queue, after every
\* loadExtensionPoint, loadExtension and ExtensionPoint.dispose.
C27_QueueOnlyWithoutPoint ==
  \A id \in QueueIds :
    allExtensionPoints[id] # NoPoint => allExtensions[id] = <<>>

\* a point was registered for an id that had a queue, has been disposed
\* since, and the id has a queue again
C27_Witness ==
  \E k \in DOMAIN regs :
    /\ regs[k].kind = "point"
    /\ regs[k].conns # {}
    /\ points[regs[k].obj].disposables.isDisposed
    /\ allExtensionPoints[points[regs[k].obj].id] = NoPoint
    /\ allExtensions[points[regs[k].obj].id] # <<>>

\* ------------------------------------------------------------------------
\* Further properties of disposal (SpecDispose) and of the manager (Spec)
\* ------------------------------------------------------------------------
\* C28: the receiver of a point is never invoked after the point has been
\* disposed, also when dispose runs while a connect call on the point is
\* waiting for the point's load or for the extension's load.
C28_NoReceiverAfterDispose ==
  [][ Len(recvLog') > Len(recvLog)
        => ~points[conns[recvLog'[Len(recvLog')].conn].point].disposables.isDisposed
    ]_vars

\* C29: an extension that is still buffered when its plugin is unloaded is
\* never connected: no connect call is started with an extension whose
\* plugin has been disposed.
C29_UnloadedNotConnected ==
  [][ \A c \in DOMAIN conns' \ DOMAIN conns :
        conns'[c].ext \in DOMAIN exts
          => ~plugins[PluginOf("ext", conns'[c].ext)].disposables.isDisposed
    ]_vars

\* C31: within one Plugin.load every declared extension point is registered
\* before any declared extension, so an extension of a point that its own
\* plugin declares is connected by loadExtension itself, to that point, and
\* is never in a pending queue.
C31_OwnPointsFirst ==
  \A j, k \in DOMAIN regs :
    ( /\ regs[j].owner # 0
      /\ regs[j].owner = regs[k].owner
      /\ regs[j].kind = "point"
      /\ regs[k].kind = "ext" )
    => /\ j < k
       /\ points[regs[j].obj].id = exts[regs[k].obj].point
            => /\ regs[k].conns # {}
               /\ \A c \in regs[k].conns :
                    /\ conns[c].ext = regs[k].obj
                    /\ conns[c].point = regs[j].obj
               /\ \A id \in PointIds : \A i \in DOMAIN allExtensions[id] :
                    allExtensions[id][i] # regs[k].obj

\* a plugin that declares a point and an extension of it has been loaded
\* while an extension of another plugin was buffered for the point: the
\* plugin's own extension has a connect call of its own on the new point
C31_Witness ==
  \E j, k \in DOMAIN regs :
    /\ regs[j].owner # 0
    /\ regs[j].owner = regs[k].owner
    /\ regs[j].kind = "point"
    /\ regs[k].kind = "ext"
    /\ regs[j].conns # {}
    /\ regs[k].conns # {}
    /\ \A c \in regs[k].conns : conns[c].point = regs[j].obj

====
